---- MODULE Spec2Model ----
(***************************************************************************)
(* Pomodian: the countdown engine (class PomoTimer, src/PomoTimer.ts) and  *)
(* the plugin that drives it (class PomodoroPlugin, src/unnamed/part_001,  *)
(* the revision with the session-complete acknowledgment).                 *)
(*                                                                         *)
(* Time.  The engine counts with window.setInterval(.., 1000); the plugin  *)
(* schedules setTimeout(.., 1000) (auto-start) and setTimeout(.., 10000)   *)
(* (expiry of the acknowledgment window).  One unit of model time is one   *)
(* second: Elapse lets a second pass, after which every active interval is *)
(* due and every pending timeout is one second nearer.  Callbacks due at   *)
(* the same instant run in any order; user commands arrive at any time.    *)
(***************************************************************************)
EXTENDS Integers, Sequences, FiniteSets

VARIABLES
    timer,          \* PomoTimer fields: state, prePauseState, remainingTime, totalTime, intervalId
    intervals,      \* handles of the window intervals that are active (setInterval, not yet cleared)
    due,            \* the active intervals whose callback is due at the current instant
    settings,       \* the PomodoroSettings object shared by the plugin and the engine
    plugin,         \* PomodoroPlugin fields: currentMode, completedPomodoros, nextMode, isSessionComplete
    autoTimers,     \* pending auto-start timeouts: seconds left before each fires
    ackTimers,      \* pending acknowledgment-expiry timeouts: seconds left before each fires
    loaded,         \* FALSE once onunload has run
    emitted,        \* the engine callbacks invoked by the last handler, in order
    workDone,       \* history: how many countdowns of mode Work have reached zero
    sessions,       \* settings.sessions, the log of Session records
    view            \* PomoView fields: statsPeriod and the two statistics elements

vars == <<timer, intervals, due, settings, plugin, autoTimers, ackTimers, loaded, emitted,
          workDone, sessions, view>>

\* ---------------------------------------------------------------- bounds
MaxEngineMinutes == 2
MaxInterval == 2
MaxPomodoros == 2
MaxSessions == 2

\* ------------------------------------------------------- program constants
NULL == 0
SecondsPerMinute == 60
AutoStartDelay == 1
AckTimeout == 10

\* enum TimerState
TimerState == {"Work", "ShortBreak", "LongBreak", "Paused", "Idle"}
\* the three values of TimerState that name a countdown
Modes == {"Work", "ShortBreak", "LongBreak"}

DEFAULT_SETTINGS ==
    [workTime |-> 25, shortBreakTime |-> 5, longBreakTime |-> 15,
     longBreakInterval |-> 4, autoStartBreaks |-> FALSE, autoStartPomodoros |-> FALSE]

\* Settings the plugin is run with: positive whole minutes, a positive interval.
\* (One-minute sessions keep the runs short: the interval and the two auto-start
\* flags vary here, and the engine driven on its own, below, varies the three
\* durations.)
SettingsSpace ==
    [workTime : {1}, shortBreakTime : {1}, longBreakTime : {1},
     longBreakInterval : 1..MaxInterval, autoStartBreaks : BOOLEAN, autoStartPomodoros : BOOLEAN]

\* Settings the engine alone is run with: only the three durations are read by it.
EngineSettingsSpace ==
    [workTime : 1..MaxEngineMinutes, shortBreakTime : 1..MaxEngineMinutes,
     longBreakTime : 1..MaxEngineMinutes,
     longBreakInterval : {DEFAULT_SETTINGS.longBreakInterval},
     autoStartBreaks : {FALSE}, autoStartPomodoros : {FALSE}]

\* ------------------------------------------------------------ the engine
\* An engine "world" w: the PomoTimer object w.t, the window's active intervals
\* w.iv and the callbacks invoked so far w.out.
onTick(remainingTime, totalTime) == [ev |-> "onTick", args |-> <<remainingTime, totalTime>>]
onTimerCompleteEv == [ev |-> "onTimerComplete", args |-> <<>>]
onStateChange(state) == [ev |-> "onStateChange", args |-> <<state>>]

\* window.setInterval: a handle that names no active interval (a positive number)
setInterval(iv) == CHOOSE h \in 1..(Cardinality(iv) + 1) :
                      h \notin iv /\ \A g \in 1..(Cardinality(iv) + 1) : g \notin iv => h <= g

clearInterval(iv, h) == iv \ {h}

\* (a changed switch: the two breaks take each other's minutes)
sessionSecondsSwapped(s, m) ==
    CASE m = "Work" -> s.workTime * SecondsPerMinute
      [] m = "ShortBreak" -> s.longBreakTime * SecondsPerMinute
      [] m = "LongBreak" -> s.shortBreakTime * SecondsPerMinute

\* the switch of start(): the configured minutes of the mode, times 60
sessionSeconds(s, m) ==
    CASE m = "Work" -> s.workTime * SecondsPerMinute
      [] m = "ShortBreak" -> s.shortBreakTime * SecondsPerMinute
      [] m = "LongBreak" -> s.longBreakTime * SecondsPerMinute

isRunning(t) == t.state # "Idle" /\ t.state # "Paused"

\* (a changed start: the time is reset on every start, not only on a new session)
startAlwaysResets(w, s, state) ==
    IF state = "Idle" \/ state = "Paused" THEN w
    ELSE LET rem == sessionSeconds(s, state)
             cleared == IF w.t.intervalId # NULL THEN clearInterval(w.iv, w.t.intervalId) ELSE w.iv
             h == setInterval(cleared)
         IN [t |-> [w.t EXCEPT !.state = state, !.remainingTime = rem, !.totalTime = rem,
                               !.intervalId = h],
             iv |-> cleared \cup {h},
             out |-> Append(w.out, onTick(rem, rem))]

\* (a changed start: the prior interval is not cleared before the new one is set)
startLeaksInterval(w, s, state) ==
    IF state = "Idle" \/ state = "Paused" THEN w
    ELSE LET fresh == w.t.remainingTime = 0
             rem == IF fresh THEN sessionSeconds(s, state) ELSE w.t.remainingTime
             tot == IF fresh THEN rem ELSE w.t.totalTime
             h == setInterval(w.iv)
         IN [t |-> [w.t EXCEPT !.state = state, !.remainingTime = rem, !.totalTime = tot,
                               !.intervalId = h],
             iv |-> w.iv \cup {h},
             out |-> Append(w.out, onTick(rem, tot))]

\* (a changed start: the early return for Idle and Paused is gone; the switch
\* has no case for them, so the times stay as they are)
startUnguarded(w, s, state) ==
    LET fresh == w.t.remainingTime = 0 /\ state \in Modes
        rem == IF fresh THEN sessionSeconds(s, state) ELSE w.t.remainingTime
        tot == IF fresh THEN rem ELSE w.t.totalTime
        cleared == IF w.t.intervalId # NULL THEN clearInterval(w.iv, w.t.intervalId) ELSE w.iv
        h == setInterval(cleared)
    IN [t |-> [w.t EXCEPT !.state = state, !.remainingTime = rem, !.totalTime = tot,
                          !.intervalId = h],
        iv |-> cleared \cup {h},
        out |-> Append(w.out, onTick(rem, tot))]

start(w, s, state) ==
    IF state = "Idle" \/ state = "Paused" THEN w
    ELSE LET fresh == w.t.remainingTime = 0
             rem == IF fresh THEN sessionSeconds(s, state) ELSE w.t.remainingTime
             tot == IF fresh THEN rem ELSE w.t.totalTime
             cleared == IF w.t.intervalId # NULL THEN clearInterval(w.iv, w.t.intervalId) ELSE w.iv
             h == setInterval(cleared)
         IN [t |-> [w.t EXCEPT !.state = state, !.remainingTime = rem, !.totalTime = tot,
                               !.intervalId = h],
             iv |-> cleared \cup {h},
             out |-> Append(w.out, onTick(rem, tot))]

\* (a changed pause: the guard is gone)
pauseUnguarded(w) ==
    [t |-> [w.t EXCEPT !.intervalId = NULL, !.prePauseState = w.t.state, !.state = "Paused"],
     iv |-> clearInterval(w.iv, w.t.intervalId),
     out |-> Append(w.out, onTick(w.t.remainingTime, w.t.totalTime))]

pause(w) ==
    IF w.t.intervalId # NULL /\ w.t.state # "Idle" /\ w.t.state # "Paused"
    THEN [t |-> [w.t EXCEPT !.intervalId = NULL, !.prePauseState = w.t.state, !.state = "Paused"],
          iv |-> clearInterval(w.iv, w.t.intervalId),
          out |-> Append(w.out, onTick(w.t.remainingTime, w.t.totalTime))]
    ELSE w

\* (a changed resume: the paused session is started anew)
resumeRestarts(w, s) ==
    IF w.t.state = "Paused"
    THEN start([w EXCEPT !.t.remainingTime = 0], s, w.t.prePauseState)
    ELSE w

resume(w, s) ==
    IF w.t.state = "Paused" THEN start(w, s, w.t.prePauseState) ELSE w

\* (a changed stop: the interval is not cleared)
stopKeepsInterval(w) ==
    [t |-> [w.t EXCEPT !.intervalId = NULL, !.state = "Idle", !.remainingTime = 0, !.totalTime = 0],
     iv |-> w.iv,
     out |-> Append(w.out, onTick(0, 0))]

\* (a changed stop: the times are not zeroed)
stopKeepsTime(w) ==
    [t |-> [w.t EXCEPT !.intervalId = NULL, !.state = "Idle"],
     iv |-> IF w.t.intervalId # NULL THEN clearInterval(w.iv, w.t.intervalId) ELSE w.iv,
     out |-> Append(w.out, onTick(0, 0))]

stop(w) ==
    [t |-> [w.t EXCEPT !.intervalId = NULL, !.state = "Idle", !.remainingTime = 0, !.totalTime = 0],
     iv |-> IF w.t.intervalId # NULL THEN clearInterval(w.iv, w.t.intervalId) ELSE w.iv,
     out |-> Append(w.out, onTick(0, 0))]

reset(w) ==
    LET w1 == stop(w) IN [w1 EXCEPT !.out = Append(@, onTick(0, 0))]

\* (a changed callback: it compares with < 0, and so stops a second late)
intervalCallbackLate(w) ==
    LET r == w.t.remainingTime - 1
        w1 == [w EXCEPT !.t.remainingTime = r, !.out = Append(@, onTick(r, w.t.totalTime))]
    IN IF r < 0
       THEN LET completedState == w1.t.state
                w2 == stop(w1)
            IN [w2 EXCEPT !.out = @ \o <<onTimerCompleteEv, onStateChange(completedState)>>]
       ELSE w1

\* (a changed callback: at zero onTimerComplete is called before stop())
intervalCallbackCompletesFirst(w) ==
    LET r == w.t.remainingTime - 1
        w1 == [w EXCEPT !.t.remainingTime = r, !.out = Append(@, onTick(r, w.t.totalTime))]
    IN IF r <= 0
       THEN LET completedState == w1.t.state
                w2 == stop([w1 EXCEPT !.out = Append(@, onTimerCompleteEv)])
            IN [w2 EXCEPT !.out = Append(@, onStateChange(completedState))]
       ELSE w1

\* (a changed callback: the last second is never counted)
intervalCallbackStalls(w) ==
    LET r == w.t.remainingTime - 1
    IN IF r <= 0 THEN w
       ELSE [w EXCEPT !.t.remainingTime = r, !.out = Append(@, onTick(r, w.t.totalTime))]

\* the callback given to setInterval in start()
intervalCallback(w) ==
    LET r == w.t.remainingTime - 1
        w1 == [w EXCEPT !.t.remainingTime = r, !.out = Append(@, onTick(r, w.t.totalTime))]
    IN IF r <= 0
       THEN LET completedState == w1.t.state
                w2 == stop(w1)
            IN [w2 EXCEPT !.out = @ \o <<onTimerCompleteEv, onStateChange(completedState)>>]
       ELSE w1

\* whether this run of the callback reaches the branch that calls onTimerComplete
completes(w) == w.t.remainingTime - 1 <= 0

World == [t |-> timer, iv |-> intervals, out |-> <<>>]

\* the engine part of a step: the world a handler leaves behind
\* (fired: the intervals whose callback ran in this step)
Runs(w, fired) ==
    /\ timer' = w.t
    /\ intervals' = w.iv
    /\ due' = (due \ fired) \cap w.iv
    /\ emitted' = w.out

\* a step of the engine or the plugin: nothing in them writes settings.sessions
\* or the view
Becomes(w, fired) ==
    /\ Runs(w, fired)
    /\ UNCHANGED <<sessions, view>>

InitTimer ==
    [state |-> "Idle", prePauseState |-> "Idle", remainingTime |-> 0, totalTime |-> 0,
     intervalId |-> NULL]

\* An element of the view: whether it has been created, and the number its
\* text shows (no number before the first setText).
absent == [created |-> FALSE, text |-> <<>>]

createEl == [created |-> TRUE, text |-> <<>>]

setText(el, n) == [el EXCEPT !.text = <<n>>]

\* the view as constructed: onOpen has not created the statistics cards yet;
\* stats holds the last call of getStats the view made, if any
InitView ==
    [statsPeriod |-> "daily", completedSessionsEl |-> absent, totalFocusTimeEl |-> absent,
     stats |-> <<>>]

InitPlugin ==
    [currentMode |-> "Work", completedPomodoros |-> 0, nextMode |-> "ShortBreak",
     isSessionComplete |-> FALSE]

pluginVars == <<plugin, autoTimers, ackTimers, loaded, workDone>>

\* ------------------------------------------- the engine driven on its own
InitEngine ==
    /\ timer = InitTimer
    /\ intervals = {}
    /\ due = {}
    /\ settings \in EngineSettingsSpace
    /\ plugin = InitPlugin
    /\ autoTimers = {}
    /\ ackTimers = {}
    /\ loaded = TRUE
    /\ emitted = <<>>
    /\ workDone = 0
    /\ sessions = <<>>
    /\ view = InitView

\* timer.start(m)
EngStartOf(m) ==
    /\ Becomes(start(World, settings, m), {})
    /\ UNCHANGED <<settings, pluginVars>>

EngStart == \E m \in TimerState : EngStartOf(m)

EngPause == Becomes(pause(World), {}) /\ UNCHANGED <<settings, pluginVars>>

EngResume == Becomes(resume(World, settings), {}) /\ UNCHANGED <<settings, pluginVars>>

EngStop == Becomes(stop(World), {}) /\ UNCHANGED <<settings, pluginVars>>

EngReset == Becomes(reset(World), {}) /\ UNCHANGED <<settings, pluginVars>>

\* (a changed updateSettings: a countdown in progress takes the new duration)
EngUpdateSettingsRescales ==
    /\ settings' \in EngineSettingsSpace
    /\ timer' = IF timer.state \in Modes
                THEN [timer EXCEPT !.totalTime = sessionSeconds(settings', timer.state)]
                ELSE timer
    /\ emitted' = <<>>
    /\ UNCHANGED <<intervals, due, pluginVars, sessions, view>>

EngUpdateSettings ==
    /\ settings' \in EngineSettingsSpace
    /\ emitted' = <<>>
    /\ UNCHANGED <<timer, intervals, due, pluginVars, sessions, view>>

\* an active interval fires (a second after it was set, and every second after)
EngTick ==
    /\ intervals # {}
    /\ Becomes(intervalCallback(World), {})
    /\ UNCHANGED <<settings, pluginVars>>

NextEngine ==
    \/ EngStart
    \/ EngPause
    \/ EngResume
    \/ EngStop
    \/ EngReset
    \/ EngUpdateSettings
    \/ EngTick

SpecEngine == InitEngine /\ [][NextEngine]_vars

\* ------------------------------- the engine left to count down
\* The engine is started and nobody pauses, stops or resets it; the window
\* keeps running the callback of an active interval.
NextEngineRun ==
    \/ EngStart
    \/ EngUpdateSettings
    \/ EngTick

SpecEngineRun == InitEngine /\ [][NextEngineRun]_vars /\ WF_vars(EngTick)

\* --------------------------- the engine given settings nobody has checked
\* The number inputs of the view (createSetting) write Number(value) into the
\* settings and hand them to updateSettings: zero and negative minutes pass.
UncheckedSettingsSpace ==
    {s \in [workTime : -1..1, shortBreakTime : -1..1, longBreakTime : {1},
            longBreakInterval : {DEFAULT_SETTINGS.longBreakInterval},
            autoStartBreaks : {FALSE}, autoStartPomodoros : {FALSE}] :
        s.workTime <= 0 \/ s.shortBreakTime <= 0}

EngUpdateSettingsUnchecked ==
    /\ settings' \in UncheckedSettingsSpace
    /\ emitted' = <<>>
    /\ UNCHANGED <<timer, intervals, due, pluginVars, sessions, view>>

NextEngineUnchecked ==
    \/ NextEngine
    \/ EngUpdateSettingsUnchecked

SpecEngineUnchecked == InitEngine /\ [][NextEngineUnchecked]_vars

\* ------------------------------------------------------------ the plugin
\* (a changed acknowledge: currentMode moves on whether or not the engine runs)
acknowledgeAlwaysAdvances(p, t) ==
    [p EXCEPT !.isSessionComplete = FALSE, !.currentMode = p.nextMode]

acknowledgeSessionComplete(p, t) ==
    [p EXCEPT !.isSessionComplete = FALSE,
              !.currentMode = IF ~isRunning(t) THEN p.nextMode ELSE @]

\* advanceToNextMode, first half: the next mode and the count of pomodoros
advanceToNextMode(p, s) ==
    IF p.currentMode = "Work"
    THEN LET n == p.completedPomodoros + 1
         IN [p EXCEPT !.completedPomodoros = n,
                      !.nextMode = IF n % s.longBreakInterval = 0 THEN "LongBreak"
                                   ELSE "ShortBreak"]
    ELSE [p EXCEPT !.nextMode = "Work"]

\* advanceToNextMode, second half: whether the auto-start timeout is set
autoStartApplies(p, s) ==
    \/ p.currentMode = "Work" /\ s.autoStartBreaks
    \/ p.currentMode # "Work" /\ s.autoStartPomodoros

\* the plugin's onTimerComplete, the callback the engine is constructed with
onTimerComplete(p, s) == advanceToNextMode([p EXCEPT !.isSessionComplete = TRUE], s)

\* cycle of handleCycleModeClick
cycleMode(m) ==
    CASE m = "Work" -> "ShortBreak"
      [] m = "ShortBreak" -> "LongBreak"
      [] m = "LongBreak" -> "Work"
      [] OTHER -> m

\* (a changed handler: the check of the engine's state is gone)
handleCycleModeClickUnguarded(p, t) ==
    IF p.isSessionComplete THEN acknowledgeSessionComplete(p, t)
    ELSE [p EXCEPT !.currentMode = cycleMode(@)]

handleCycleModeClick(p, t) ==
    IF t.state # "Idle" \/ isRunning(t) THEN p
    ELSE IF p.isSessionComplete THEN acknowledgeSessionComplete(p, t)
    ELSE [p EXCEPT !.currentMode = cycleMode(@)]

Init ==
    /\ timer = InitTimer
    /\ intervals = {}
    /\ due = {}
    /\ settings \in SettingsSpace
    /\ plugin = InitPlugin
    /\ autoTimers = {}
    /\ ackTimers = {}
    /\ loaded = TRUE
    /\ emitted = <<>>
    /\ workDone = 0
    /\ sessions = <<>>
    /\ view = InitView

\* (a changed handler: the one of the revision without the acknowledgment,
\* which toggles the engine whether or not a session awaits acknowledgment)
PauseResumeClickNoAck ==
    /\ loaded
    /\ Becomes(IF isRunning(timer) \/ timer.state = "Paused"
               THEN (IF timer.state = "Paused" THEN resume(World, settings)
                     ELSE pause(World))
               ELSE start(World, settings, plugin.currentMode), {})
    /\ UNCHANGED <<plugin, settings, autoTimers, ackTimers, loaded, workDone>>

\* click on the time button of the panel
PauseResumeClick ==
    /\ loaded
    /\ IF plugin.isSessionComplete
       THEN /\ plugin' = acknowledgeSessionComplete(plugin, timer)
            /\ emitted' = <<>>
            /\ UNCHANGED <<timer, intervals, due, sessions, view>>
       ELSE /\ Becomes(IF isRunning(timer) \/ timer.state = "Paused"
                       THEN (IF timer.state = "Paused" THEN resume(World, settings)
                             ELSE pause(World))
                       ELSE start(World, settings, plugin.currentMode), {})
            /\ UNCHANGED plugin
    /\ UNCHANGED <<settings, autoTimers, ackTimers, loaded, workDone>>

\* (a changed handler: the one of the revision without the acknowledgment,
\* which stops the engine and leaves isSessionComplete as it is)
ResetClickKeepsAck ==
    /\ loaded
    /\ Becomes(stop(World), {})
    /\ UNCHANGED <<plugin, settings, autoTimers, ackTimers, loaded, workDone>>

\* right click on the time button
ResetClick ==
    /\ loaded
    /\ Becomes(reset(World), {})
    /\ plugin' = [plugin EXCEPT !.isSessionComplete = FALSE]
    /\ UNCHANGED <<settings, autoTimers, ackTimers, loaded, workDone>>

\* click on the mode label of the panel
CycleModeClick ==
    /\ loaded
    /\ plugin' = handleCycleModeClick(plugin, timer)
    /\ emitted' = <<>>
    /\ UNCHANGED <<timer, intervals, due, settings, autoTimers, ackTimers, loaded, workDone,
                   sessions, view>>

\* click on the pie button: acknowledges a completed session (else it pins the
\* panel, which is display state and not part of the model)
PieButtonClick ==
    /\ loaded
    /\ plugin' = IF plugin.isSessionComplete THEN acknowledgeSessionComplete(plugin, timer)
                 ELSE plugin
    /\ emitted' = <<>>
    /\ UNCHANGED <<timer, intervals, due, settings, autoTimers, ackTimers, loaded, workDone,
                   sessions, view>>

\* a control of the settings tab: one field is written, then saveSettings
\* hands the (same) object to the engine
SettingChange ==
    /\ loaded
    /\ \E s \in SettingsSpace :
          /\ Cardinality({f \in DOMAIN s : s[f] # settings[f]}) = 1
          /\ settings' = s
    /\ emitted' = <<>>
    /\ UNCHANGED <<timer, intervals, due, plugin, autoTimers, ackTimers, loaded, workDone,
                   sessions, view>>

\* onunload
Unload ==
    /\ loaded
    /\ loaded' = FALSE
    /\ Becomes(stop(World), {})
    /\ UNCHANGED <<settings, plugin, autoTimers, ackTimers, workDone>>

\* one second passes: nothing is left to run at the current instant
Elapse ==
    /\ due = {}
    /\ 0 \notin autoTimers
    /\ 0 \notin ackTimers
    /\ intervals # {} \/ autoTimers # {} \/ ackTimers # {}
    /\ due' = intervals
    /\ autoTimers' = {d - 1 : d \in autoTimers}
    /\ ackTimers' = {d - 1 : d \in ackTimers}
    /\ emitted' = <<>>
    /\ UNCHANGED <<timer, intervals, settings, plugin, loaded, workDone, sessions, view>>

\* the callback of a due interval runs; at zero it calls the plugin's onTimerComplete
TickRuns ==
    /\ plugin.completedPomodoros < MaxPomodoros
    /\ workDone < MaxPomodoros
    /\ workDone' = IF completes(World) /\ timer.state = "Work" THEN workDone + 1 ELSE workDone
    /\ \E h \in due :
          /\ Runs(intervalCallback(World), {h})
          /\ IF completes(World)
             THEN /\ plugin' = onTimerComplete(plugin, settings)
                  /\ autoTimers' = IF autoStartApplies(plugin, settings)
                                   THEN autoTimers \cup {AutoStartDelay} ELSE autoTimers
                  /\ ackTimers' = ackTimers \cup {AckTimeout}
             ELSE UNCHANGED <<plugin, autoTimers, ackTimers>>
    /\ UNCHANGED <<settings, loaded>>

Tick ==
    /\ TickRuns
    /\ UNCHANGED <<sessions, view>>

\* (a changed callback of the expiry timeout: it acknowledges nothing)
AckExpiryFireLost ==
    /\ 0 \in ackTimers
    /\ ackTimers' = ackTimers \ {0}
    /\ emitted' = <<>>
    /\ UNCHANGED <<plugin, timer, intervals, due, settings, autoTimers, loaded, workDone,
                   sessions, view>>

\* (a changed callback: it does not look at isSessionComplete)
AutoStartFireUnguarded ==
    /\ 0 \in autoTimers
    /\ autoTimers' = autoTimers \ {0}
    /\ plugin' = [plugin EXCEPT !.currentMode = plugin.nextMode]
    /\ Becomes(start(World, settings, plugin.nextMode), {})
    /\ UNCHANGED <<settings, ackTimers, loaded, workDone>>

\* (a changed callback: it starts nextMode and leaves currentMode behind)
AutoStartFireKeepsMode ==
    /\ 0 \in autoTimers
    /\ autoTimers' = autoTimers \ {0}
    /\ IF plugin.isSessionComplete
       THEN /\ Becomes(start(World, settings, plugin.nextMode), {})
            /\ UNCHANGED plugin
       ELSE /\ emitted' = <<>>
            /\ UNCHANGED <<plugin, timer, intervals, due, sessions, view>>
    /\ UNCHANGED <<settings, ackTimers, loaded, workDone>>

\* the timeout set by advanceToNextMode fires
AutoStartFire ==
    /\ 0 \in autoTimers
    /\ autoTimers' = autoTimers \ {0}
    /\ IF plugin.isSessionComplete
       THEN /\ plugin' = [plugin EXCEPT !.currentMode = plugin.nextMode]
            /\ Becomes(start(World, settings, plugin.nextMode), {})
       ELSE /\ emitted' = <<>>
            /\ UNCHANGED <<plugin, timer, intervals, due, sessions, view>>
    /\ UNCHANGED <<settings, ackTimers, loaded, workDone>>

\* the timeout set by onTimerComplete fires
AckExpiryFire ==
    /\ 0 \in ackTimers
    /\ ackTimers' = ackTimers \ {0}
    /\ plugin' = acknowledgeSessionComplete(plugin, timer)
    /\ emitted' = <<>>
    /\ UNCHANGED <<timer, intervals, due, settings, autoTimers, loaded, workDone, sessions, view>>

Next ==
    \/ PauseResumeClick
    \/ ResetClick
    \/ CycleModeClick
    \/ PieButtonClick
    \/ SettingChange
    \/ Unload
    \/ Elapse
    \/ Tick
    \/ AutoStartFire
    \/ AckExpiryFire

Spec == Init /\ [][Next]_vars

\* ------------------------------- the plugin run with settings that stay put
\* Any of the settings above, or the defaults, and no control of the settings
\* tab is touched.
InitFixed ==
    /\ timer = InitTimer
    /\ intervals = {}
    /\ due = {}
    /\ settings \in SettingsSpace \cup {DEFAULT_SETTINGS}
    /\ plugin = InitPlugin
    /\ autoTimers = {}
    /\ ackTimers = {}
    /\ loaded = TRUE
    /\ emitted = <<>>
    /\ workDone = 0
    /\ sessions = <<>>
    /\ view = InitView

NextFixed ==
    \/ PauseResumeClick
    \/ ResetClick
    \/ CycleModeClick
    \/ PieButtonClick
    \/ Unload
    \/ Elapse
    \/ Tick
    \/ AutoStartFire
    \/ AckExpiryFire

SpecFixed == InitFixed /\ [][NextFixed]_vars

\* The plugin with the browser's scheduling: a second that can pass does pass,
\* and a callback that is due runs.  Nothing is assumed of the user, who may
\* click at any time; the settings stay put, with either auto-start flag on or
\* off and a long break after every pomodoro.
InitLive ==
    /\ Init
    /\ settings.longBreakInterval = 1

SpecLive ==
    /\ InitLive
    /\ [][NextFixed]_vars
    /\ WF_vars(Elapse)
    /\ WF_vars(Tick)
    /\ WF_vars(AutoStartFire)
    /\ WF_vars(AckExpiryFire)

\* --------------------------------------------------------- the session log
\* The interface Session and the field settings.sessions are declared in
\* PomoTimer.ts, and nothing of the engine or of the plugin above writes the
\* log.  The handler that appends to it is the orchestrator's
\* onEngineCompletion(mode, durationSeconds), which appends the record
\* {now, mode, durationSeconds}.  Here it is wired to the engine's completion
\* callback, so its two parameters are the arguments of that call: a parameter
\* the call does not supply is undefined.
undefined == "undefined"

Param(args, i) == IF i \in DOMAIN args THEN args[i] ELSE undefined

onEngineCompletion(log, args) ==
    Append(log, [type |-> Param(args, 1), duration |-> Param(args, 2)])

\* the log after a handler that invoked the callbacks out, in order
RECURSIVE Logged(_, _)
Logged(log, out) ==
    IF out = <<>> THEN log
    ELSE Logged(IF Head(out).ev = "onTimerComplete"
                THEN onEngineCompletion(log, Head(out).args) ELSE log,
                Tail(out))

\* the tick of the plugin with that handler on the completion callback
SessionTick ==
    /\ Len(sessions) < MaxSessions
    /\ TickRuns
    /\ sessions' = Logged(sessions, emitted')
    /\ view' = view

NextSessions ==
    \/ PauseResumeClick
    \/ ResetClick
    \/ CycleModeClick
    \/ PieButtonClick
    \/ Unload
    \/ Elapse
    \/ SessionTick
    \/ AutoStartFire
    \/ AckExpiryFire

SpecSessions == InitLive /\ [][NextSessions]_vars

\* ------------------------------------- the plugin left to its own callbacks
\* The user has picked a mode on the label, started it on the time button, and
\* touches nothing from then on: only the interval and the two timeouts run.
InitHandsOff ==
    /\ settings \in SettingsSpace
    /\ plugin \in {[InitPlugin EXCEPT !.currentMode = m] : m \in Modes}
    /\ timer = start([t |-> InitTimer, iv |-> {}, out |-> <<>>], settings,
                     plugin.currentMode).t
    /\ intervals = {timer.intervalId}
    /\ due = {}
    /\ autoTimers = {}
    /\ ackTimers = {}
    /\ loaded = TRUE
    /\ emitted = <<onTick(timer.remainingTime, timer.totalTime)>>
    /\ workDone = 0
    /\ sessions = <<>>
    /\ view = InitView

NextHandsOff ==
    \/ Elapse
    \/ Tick
    \/ AutoStartFire
    \/ AckExpiryFire

SpecHandsOff == InitHandsOff /\ [][NextHandsOff]_vars

\* ---------------------------------------------------------- the statistics
\* The view asks the plugin for getStats(period) and shows the two numbers
\* (PomoView.updateStats).  getStats is the aggregation over the session log:
\* it keeps the records of type Work whose date lies in the period and returns
\* their number and the sum of their durations.  A date is a day number; the
\* day of the call is 'now'.  daily is the day of the call; weekly is the
\* most recent WeekDays days, the day of the call included.
WeekDays == 7

periods == {"daily", "weekly"}

\* (a changed window: the week reaches one day further back)
inPeriodEightDays(date, period, now) ==
    IF period = "daily" THEN date = now
    ELSE now - WeekDays <= date /\ date <= now

inPeriod(date, period, now) ==
    IF period = "daily" THEN date = now
    ELSE now - WeekDays < date /\ date <= now

RECURSIVE getStats(_, _, _)
getStats(log, period, now) ==
    IF log = <<>> THEN [completedPomodoros |-> 0, totalFocusTime |-> 0]
    ELSE LET session == Head(log)
             rest == getStats(Tail(log), period, now)
         IN  IF session.type = "Work" /\ inPeriod(session.date, period, now)
             THEN [completedPomodoros |-> rest.completedPomodoros + 1,
                   totalFocusTime |-> rest.totalFocusTime + session.duration]
             ELSE rest

\* PomoView.updateStats of the view v, called on day now: it returns at once
\* when either card is missing; else the two cards show the count and the
\* whole minutes of focus time of getStats(this.statsPeriod)
updateStats(v, now) ==
    IF ~v.completedSessionsEl.created \/ ~v.totalFocusTimeEl.created THEN v
    ELSE LET stats == getStats(sessions, v.statsPeriod, now)
         IN  [v EXCEPT !.completedSessionsEl = setText(@, stats.completedPomodoros),
                       !.totalFocusTimeEl =
                           setText(@, stats.totalFocusTime \div SecondsPerMinute),
                       !.stats = <<[now |-> now, result |-> stats]>>]

\* PomoView.onOpen, its statistics section: the two cards are created, then
\* this.updateStats()
onOpen(v, now) ==
    updateStats([v EXCEPT !.completedSessionsEl = createEl, !.totalFocusTimeEl = createEl],
                now)

\* the handler of the toggle 'This Week'
statsToggleChange(v, value, now) ==
    updateStats([v EXCEPT !.statsPeriod = IF value THEN "weekly" ELSE "daily"], now)

\* the logs the statistics are taken over: every log of at most MaxLog records
\* over a few days on both sides of the week's edge, and the log of three
\* Work sessions today (600 s, 900 s, 1500 s) and one yesterday (1500 s)
MaxLog == 2

StatsDates == {0, 1, WeekDays - 1, WeekDays}

StatsNow == {WeekDays, WeekDays + 1}

StatsDurations == {600, 900, 1500}

StatsRecords == [date : StatsDates, type : {"Work", "ShortBreak"}, duration : StatsDurations]

ExampleLog(now) ==
    << [date |-> now, type |-> "Work", duration |-> 600],
       [date |-> now, type |-> "Work", duration |-> 900],
       [date |-> now, type |-> "Work", duration |-> 1500],
       [date |-> now - 1, type |-> "Work", duration |-> 1500] >>

StatsLogs == UNION {[1..n -> StatsRecords] : n \in 0..MaxLog} \cup {ExampleLog(WeekDays)}

InitStats ==
    /\ timer = InitTimer
    /\ intervals = {}
    /\ due = {}
    /\ settings = DEFAULT_SETTINGS
    /\ plugin = InitPlugin
    /\ autoTimers = {}
    /\ ackTimers = {}
    /\ loaded = TRUE
    /\ emitted = <<>>
    /\ workDone = 0
    /\ sessions \in StatsLogs
    /\ view = InitView

\* the view is opened
OnOpen ==
    /\ \E now \in StatsNow : view' = onOpen(view, now)
    /\ UNCHANGED <<timer, intervals, due, settings, pluginVars, emitted, sessions>>

\* a call of the view's updateStats(), on an opened view or not
UpdateStats ==
    /\ \E now \in StatsNow : view' = updateStats(view, now)
    /\ UNCHANGED <<timer, intervals, due, settings, pluginVars, emitted, sessions>>

\* the toggle 'This Week', which exists once onOpen has run:
\* statsPeriod = value ? 'weekly' : 'daily', updateStats()
StatsToggle ==
    /\ view.completedSessionsEl.created
    /\ view.totalFocusTimeEl.created
    /\ \E value \in BOOLEAN, now \in StatsNow : view' = statsToggleChange(view, value, now)
    /\ UNCHANGED <<timer, intervals, due, settings, pluginVars, emitted, sessions>>

NextStats ==
    \/ OnOpen
    \/ UpdateStats
    \/ StatsToggle

SpecStats == InitStats /\ [][NextStats]_vars

\* ===================================================================== claims
\* how many times onTimerComplete was called by the last handler
NCompletions(out) == Cardinality({i \in DOMAIN out : out[i].ev = "onTimerComplete"})

\* The engine driven on its own: a tick that takes remainingTime from 1 to 0.
TickToZero == EngTick /\ timer.remainingTime = 1

\* C1: over any sequence of start, pause, resume, stop, reset and tick, a step
\* calls onTimerComplete once when it is the tick that takes remainingTime to
\* zero and not at all otherwise; after that call the interval is cleared and
\* the engine Idle, so the same interval cannot complete a second time.
C1_CompletionExactlyOnce ==
    [][/\ NCompletions(emitted') = (IF TickToZero THEN 1 ELSE 0)
       /\ NCompletions(emitted') = 1 =>
             intervals' = {} /\ timer'.state = "Idle" /\ timer'.intervalId = NULL]_vars

\* C1 witness: an interval that was paused and resumed on its way has completed.
C1_Witness ==
    /\ NCompletions(emitted) = 1
    /\ timer.state = "Idle"
    /\ timer.prePauseState \in Modes

\* C2: the plugin's reset (timer.reset()) and its unload (timer.stop()), in
\* whatever state the engine is, leave it Idle with remainingTime = totalTime
\* = 0 and no active countdown, call onTimerComplete not at all, and change
\* neither completedPomodoros nor nextMode, nor set isSessionComplete.
C2_AbandonedNotCounted ==
    [][(ResetClick \/ Unload) =>
          /\ timer'.state = "Idle"
          /\ timer'.remainingTime = 0
          /\ timer'.totalTime = 0
          /\ intervals' = {}
          /\ due' = {}
          /\ NCompletions(emitted') = 0
          /\ plugin'.completedPomodoros = plugin.completedPomodoros
          /\ plugin'.nextMode = plugin.nextMode
          /\ plugin'.isSessionComplete => plugin.isSessionComplete
          /\ workDone' = workDone]_vars

\* C2 witness: a reset has just run on an interval that had been started and
\* paused, and no countdown has ever completed.
C2_Witness ==
    /\ emitted = <<onTick(0, 0), onTick(0, 0)>>
    /\ timer.state = "Idle"
    /\ timer.prePauseState \in Modes
    /\ plugin.completedPomodoros = 0
    /\ workDone = 0
    /\ ackTimers = {}
    /\ ~plugin.isSessionComplete

\* C3: start(m) on an Idle engine sets totalTime = remainingTime = the minutes
\* configured for m, times 60, and leaves the engine running in mode m.
C3_Minutes(m) ==
    IF m = "Work" THEN settings.workTime
    ELSE IF m = "ShortBreak" THEN settings.shortBreakTime
    ELSE settings.longBreakTime

C3_StartFromIdle ==
    [][\A m \in Modes :
         (timer.state = "Idle" /\ EngStartOf(m)) =>
            /\ timer'.totalTime = C3_Minutes(m) * 60
            /\ timer'.remainingTime = C3_Minutes(m) * 60
            /\ timer'.state = m
            /\ timer'.intervalId \in intervals']_vars

\* C3 witness: a long break just started from Idle, with a duration that is
\* neither the short break's nor the work session's.
C3_Witness ==
    /\ timer.state = "LongBreak"
    /\ timer.remainingTime = timer.totalTime
    /\ timer.totalTime = 120
    /\ settings.longBreakTime = 2
    /\ settings.shortBreakTime = 1
    /\ settings.workTime = 1
    /\ emitted = <<onTick(120, 120)>>

\* C4: remainingTime never increases in a step taken by a running engine, is
\* left alone by every step that leaves a paused engine paused or resumes it,
\* and a step changes the times to remainingTime = totalTime # 0 only when it
\* is a start on an Idle engine.
C4_RemainingMonotone ==
    [][/\ isRunning(timer) => timer'.remainingTime <= timer.remainingTime
       /\ (timer.state = "Paused" /\ timer'.state # "Idle") =>
              /\ timer'.remainingTime = timer.remainingTime
              /\ timer'.totalTime = timer.totalTime
       /\ (/\ timer'.remainingTime = timer'.totalTime
           /\ timer'.remainingTime # 0
           /\ <<timer'.remainingTime, timer'.totalTime>>
                 # <<timer.remainingTime, timer.totalTime>>) =>
              /\ timer.state = "Idle"
              /\ \E m \in Modes : EngStartOf(m)]_vars

\* C4 witness: a paused engine part of the way through an interval whose
\* settings have been replaced since it started.
C4_Witness ==
    /\ timer.state = "Paused"
    /\ 0 < timer.remainingTime
    /\ timer.remainingTime < timer.totalTime
    /\ sessionSeconds(settings, timer.prePauseState) # timer.totalTime

\* C5: on a running engine, pause() then resume() gives a running engine in
\* the same mode with the same remainingTime and totalTime and one active
\* countdown, whatever the settings are by the time of the resume.
C5_PauseResumeRoundTrip ==
    isRunning(timer) =>
        \A s \in EngineSettingsSpace :
            LET w == resume(pause(World), s)
            IN /\ w.t.state = timer.state
               /\ w.t.remainingTime = timer.remainingTime
               /\ w.t.totalTime = timer.totalTime
               /\ w.t.intervalId # NULL
               /\ w.iv = {w.t.intervalId}

\* C5 witness: a running engine that has been paused and resumed part of the
\* way, with settings that no longer give the duration it was started with.
C5_Witness ==
    /\ isRunning(timer)
    /\ timer.prePauseState = timer.state
    /\ 0 < timer.remainingTime
    /\ timer.remainingTime < timer.totalTime
    /\ sessionSeconds(settings, timer.state) # timer.totalTime
    /\ emitted = <<onTick(timer.remainingTime, timer.totalTime)>>

\* C6: pause() twice leaves the engine, the active intervals and the callbacks
\* invoked exactly as pause() once does.
C6_PauseIdempotent ==
    LET once == pause(World)
        twice == pause(once)
    IN /\ twice.t = once.t
       /\ twice.iv = once.iv
       /\ twice.out = once.out

\* C6 witness: a running engine, on which the first pause() does act.
C6_Witness ==
    /\ isRunning(timer)
    /\ timer.remainingTime < timer.totalTime
    /\ pause(World).t.state = "Paused"
    /\ pause(World).t # timer

\* a tick of the plugin's engine that takes a countdown of mode m to zero
CompletesMode(m) == Tick /\ completes(World) /\ timer.state = m

\* C7: with longBreakInterval = n never changed, the k-th countdown of mode
\* Work that reaches zero sets nextMode to LongBreak when k mod n = 0 and to
\* ShortBreak otherwise.
C7_LongBreakCadence ==
    [][CompletesMode("Work") =>
          plugin'.nextMode = (IF (workDone + 1) % settings.longBreakInterval = 0
                              THEN "LongBreak" ELSE "ShortBreak")]_vars

\* the callbacks of the last handler that are calls of onTimerComplete
CompletionEvents == {emitted[i] : i \in {j \in DOMAIN emitted : emitted[j].ev = "onTimerComplete"}}

\* the last handler was the tick that took the first Work countdown to zero,
\* on an engine that was never paused, under the default settings
C8_FirstWorkCompleted ==
    /\ settings = DEFAULT_SETTINGS
    /\ workDone = 1
    /\ timer.prePauseState = "Idle"
    /\ \E i \in DOMAIN emitted : emitted[i] = onStateChange("Work")

\* C8: with the default settings {25, 5, 15, 4}, starting Work and letting it
\* tick to zero gives one completion event, for Work with duration 1500, and
\* completedPomodoros = 1, nextMode = ShortBreak, isSessionComplete = TRUE.
C8_DefaultScenario ==
    C8_FirstWorkCompleted =>
        /\ NCompletions(emitted) = 1
        /\ \A e \in CompletionEvents : e.args = <<"Work", 1500>>
        /\ plugin.completedPomodoros = 1
        /\ plugin.nextMode = "ShortBreak"
        /\ plugin.isSessionComplete

\* C9: whenever isSessionComplete is set, also once auto-start has the engine
\* running, a click on the mode label acknowledges: it clears
\* isSessionComplete and leaves currentMode = nextMode.
C9_CycleActsAsAcknowledge ==
    plugin.isSessionComplete =>
        LET p == handleCycleModeClick(plugin, timer)
        IN /\ ~p.isSessionComplete
           /\ p.currentMode = p.nextMode

\* a click that runs acknowledgeSessionComplete
ManualAcknowledge ==
    plugin.isSessionComplete /\ (PieButtonClick \/ PauseResumeClick \/ CycleModeClick)

\* C10: with autoStartBreaks set, a Work countdown that reaches zero sets the
\* auto-start timeout; when it fires with isSessionComplete still set (no
\* acknowledgment or reset came first) the engine is left running a new
\* countdown in nextMode, a break, and currentMode = nextMode; a manual
\* acknowledgment after that changes neither currentMode nor the engine.
C10_AutoStartBreak ==
    [][/\ (CompletesMode("Work") /\ settings.autoStartBreaks) =>
             /\ AutoStartDelay \in autoTimers'
             /\ plugin'.nextMode \in {"ShortBreak", "LongBreak"}
       /\ (AutoStartFire /\ plugin.isSessionComplete) =>
             /\ timer'.state = plugin.nextMode
             /\ isRunning(timer')
             /\ timer'.intervalId \in intervals'
             /\ plugin'.currentMode = plugin.nextMode
       /\ (ManualAcknowledge /\ isRunning(timer)) =>
             /\ plugin'.currentMode = plugin.currentMode
             /\ timer' = timer
             /\ intervals' = intervals]_vars

\* a tick of the plugin's engine that takes a countdown to zero
ReachesZero == Tick /\ completes(World)

\* a tick of the plugin's engine, with the session handler on its completion
\* callback, that takes a countdown to zero
C11_ReachesZero == SessionTick /\ completes(World)

\* C11: a step appends one Session record to the log when it is the tick that
\* takes remainingTime to zero, the record's type being the mode that completed
\* and its duration the totalTime the interval was started with; every other
\* step (reset and unload among them) leaves the log as it is.
C11_SessionPerCompletion ==
    [][/\ C11_ReachesZero =>
             /\ Len(sessions') = Len(sessions) + 1
             /\ SubSeq(sessions', 1, Len(sessions)) = sessions
             /\ sessions'[Len(sessions')].type = timer.state
             /\ sessions'[Len(sessions')].duration = timer.totalTime
       /\ ~C11_ReachesZero => sessions' = sessions]_vars

\* C12: a click on the time button while isSessionComplete is set clears it
\* and leaves the engine and its countdown alone; while it is not set the click
\* pauses a running engine, resumes a paused one where it stopped, and starts
\* an Idle one on a full countdown of currentMode, and changes no plugin field.
C12_StartToggle ==
    [][PauseResumeClick =>
          IF plugin.isSessionComplete
          THEN /\ ~plugin'.isSessionComplete
               /\ timer' = timer
               /\ intervals' = intervals
          ELSE /\ plugin' = plugin
               /\ isRunning(timer) =>
                     /\ timer'.state = "Paused"
                     /\ timer'.prePauseState = timer.state
                     /\ timer'.remainingTime = timer.remainingTime
                     /\ intervals' = {}
               /\ timer.state = "Paused" =>
                     /\ timer'.state = timer.prePauseState
                     /\ isRunning(timer')
                     /\ timer'.remainingTime = timer.remainingTime
                     /\ timer'.totalTime = timer.totalTime
                     /\ intervals' = {timer'.intervalId}
               /\ timer.state = "Idle" =>
                     /\ timer'.state = plugin.currentMode
                     /\ timer'.remainingTime = sessionSeconds(settings, plugin.currentMode)
                     /\ timer'.totalTime = timer'.remainingTime
                     /\ intervals' = {timer'.intervalId}]_vars

\* C12 witness: at the instant a countdown reached zero (its expiry timeout is
\* whole, no auto-start is pending) the engine is already running the next
\* mode: one click acknowledged, the next one started currentMode.
C12_Witness ==
    /\ workDone = 1
    /\ AckTimeout \in ackTimers
    /\ autoTimers = {}
    /\ ~plugin.isSessionComplete
    /\ isRunning(timer)
    /\ timer.state = plugin.nextMode
    /\ timer.remainingTime = timer.totalTime
    /\ emitted = <<onTick(timer.remainingTime, timer.totalTime)>>

\* C13: a right click on the time button, in any state, clears
\* isSessionComplete, leaves the engine Idle with remainingTime = totalTime = 0
\* and no countdown, and changes none of currentMode, nextMode and
\* completedPomodoros.
C13_ResetFrame ==
    [][ResetClick =>
          /\ ~plugin'.isSessionComplete
          /\ timer'.state = "Idle"
          /\ timer'.remainingTime = 0
          /\ timer'.totalTime = 0
          /\ intervals' = {}
          /\ plugin'.currentMode = plugin.currentMode
          /\ plugin'.nextMode = plugin.nextMode
          /\ plugin'.completedPomodoros = plugin.completedPomodoros]_vars

\* C13 witness: a reset at the instant a Work countdown reached zero: the
\* session was awaiting acknowledgment, and currentMode has not moved on to
\* nextMode.
C13_Witness ==
    /\ emitted = <<onTick(0, 0), onTick(0, 0)>>
    /\ AckTimeout \in ackTimers
    /\ ~plugin.isSessionComplete
    /\ plugin.completedPomodoros = 1
    /\ plugin.currentMode = "Work"
    /\ plugin.nextMode # "Work"
    /\ timer.state = "Idle"

\* one step of Work -> ShortBreak -> LongBreak -> Work
C14_Step(m) ==
    IF m = "Work" THEN "ShortBreak" ELSE IF m = "ShortBreak" THEN "LongBreak" ELSE "Work"

\* C14: a click on the mode label never touches the engine; while the engine
\* is running or paused it changes no plugin field; while the engine is Idle
\* and isSessionComplete is not set it moves currentMode one step on and
\* nothing else, and three such clicks bring currentMode back.
C14_CycleMode ==
    [][CycleModeClick =>
          /\ timer' = timer
          /\ intervals' = intervals
          /\ timer.state # "Idle" => plugin' = plugin
          /\ (timer.state = "Idle" /\ ~plugin.isSessionComplete) =>
                /\ plugin' = [plugin EXCEPT !.currentMode = C14_Step(plugin.currentMode)]
                /\ plugin'.currentMode # plugin.currentMode
                /\ handleCycleModeClick(handleCycleModeClick(plugin', timer'), timer')
                      = plugin]_vars

\* C14 witness: no countdown has ever reached zero and currentMode is
\* LongBreak: the label was clicked twice on an Idle engine; and a countdown
\* was started and abandoned on the way.
C14_Witness ==
    /\ workDone = 0
    /\ plugin.completedPomodoros = 0
    /\ plugin.nextMode = "ShortBreak"
    /\ ackTimers = {}
    /\ plugin.currentMode = "LongBreak"
    /\ timer.state = "Idle"
    /\ timer.prePauseState = "ShortBreak"
    /\ emitted = <<>>

\* a step that runs acknowledgeSessionComplete: the expiry timeout, or a click
\* on the pie button, the time button or (engine Idle) the mode label while
\* isSessionComplete is set
RunsAcknowledge ==
    \/ AckExpiryFire
    \/ /\ plugin.isSessionComplete
       /\ PieButtonClick \/ PauseResumeClick \/ (CycleModeClick /\ timer.state = "Idle")

\* C15: acknowledgeSessionComplete clears isSessionComplete; it sets
\* currentMode = nextMode when the engine is not running (Idle or Paused) and
\* leaves currentMode alone when it is; the engine, its countdown, nextMode
\* and completedPomodoros are unchanged.
C15_Acknowledge ==
    [][RunsAcknowledge =>
          /\ ~plugin'.isSessionComplete
          /\ plugin'.currentMode = (IF isRunning(timer) THEN plugin.currentMode
                                    ELSE plugin.nextMode)
          /\ plugin'.nextMode = plugin.nextMode
          /\ plugin'.completedPomodoros = plugin.completedPomodoros
          /\ timer' = timer
          /\ intervals' = intervals]_vars

\* C15 witness: the expiry timeout of the one completion has fired and
\* isSessionComplete is clear, the engine is ten seconds into a countdown and
\* currentMode is not nextMode.
C15_Witness ==
    /\ workDone = 1
    /\ ackTimers = {}
    /\ ~plugin.isSessionComplete
    /\ isRunning(timer)
    /\ timer.remainingTime = timer.totalTime - AckTimeout
    /\ plugin.currentMode # plugin.nextMode
    /\ emitted = <<>>

\* C16: when the expiry timeout fires with isSessionComplete already clear
\* (a click or a reset acknowledged the completion it was set for: countdowns
\* last a minute or more, so no other completion's timeout can be pending), it
\* changes neither currentMode nor isSessionComplete nor the engine, whatever
\* the user did in between.
C16_ExpiryAfterClearIsNoOp ==
    [][(AckExpiryFire /\ ~plugin.isSessionComplete) =>
          /\ plugin'.currentMode = plugin.currentMode
          /\ ~plugin'.isSessionComplete
          /\ timer' = timer
          /\ intervals' = intervals]_vars

\* C17: when the auto-start timeout fires with isSessionComplete clear (a
\* click or a reset acknowledged the completion within the second of grace),
\* it starts nothing and changes no plugin field: the engine, its countdown
\* and currentMode are as they were.
C17_AutoStartCancelled ==
    [][(AutoStartFire /\ ~plugin.isSessionComplete) =>
          /\ timer' = timer
          /\ intervals' = intervals
          /\ plugin' = plugin
          /\ emitted' = <<>>]_vars

\* C17 witness: the auto-start timeout of a completion is due, and a reset
\* has cleared isSessionComplete meanwhile: the engine is Idle and currentMode
\* has not moved on to nextMode.
C17_Witness ==
    /\ 0 \in autoTimers
    /\ ~plugin.isSessionComplete
    /\ timer.state = "Idle"
    /\ plugin.currentMode # plugin.nextMode
    /\ (AckTimeout - AutoStartDelay) \in ackTimers

\* with no user command since the completion: the auto-start timeout was set
\* for the countdown that completed last (a Work countdown when nextMode is a
\* break, a break when nextMode is Work)
C18_AutoStartWasSet ==
    IF plugin.nextMode = "Work" THEN settings.autoStartPomodoros
    ELSE settings.autoStartBreaks

\* C18: with no user command, a completion for which auto-start applies sets
\* both timeouts; the auto-start callback fires first, with isSessionComplete
\* set, moves currentMode from the completed mode to nextMode and starts it;
\* the expiry callback fires later and leaves currentMode (= nextMode) and
\* the engine's state, remainingTime and totalTime as they are.
C18_OneTransition ==
    [][/\ (ReachesZero /\ autoStartApplies(plugin, settings)) =>
             /\ AutoStartDelay \in autoTimers'
             /\ AckTimeout \in ackTimers'
             /\ plugin'.nextMode # plugin.currentMode
       /\ AutoStartFire =>
             /\ plugin.isSessionComplete
             /\ plugin.currentMode # plugin.nextMode
             /\ plugin'.currentMode = plugin.nextMode
             /\ timer'.state = plugin.nextMode
             /\ ackTimers # {}
       /\ (AckExpiryFire /\ C18_AutoStartWasSet) =>
             /\ plugin'.currentMode = plugin.currentMode
             /\ plugin.currentMode = plugin.nextMode
             /\ isRunning(timer)
             /\ timer'.state = timer.state
             /\ timer'.remainingTime = timer.remainingTime
             /\ timer'.totalTime = timer.totalTime]_vars

\* C18 witness: both callbacks of one completion have fired: the engine is
\* nine seconds into the countdown the auto-start began, in currentMode =
\* nextMode, a break.
C18_Witness ==
    /\ workDone = 1
    /\ autoTimers = {}
    /\ ackTimers = {}
    /\ ~plugin.isSessionComplete
    /\ plugin.currentMode = plugin.nextMode
    /\ plugin.currentMode # "Work"
    /\ timer.state = plugin.currentMode
    /\ timer.remainingTime = timer.totalTime - (AckTimeout - AutoStartDelay)
    /\ emitted = <<>>

\* C19: start(m) on an engine that is running or paused changes neither its
\* state nor the mode it paused in: the active mode is not replaced and a
\* paused engine stays paused.
C19_StartWhileActiveIsNoOp ==
    [][\A m \in Modes :
         (timer.state # "Idle" /\ EngStartOf(m)) =>
            /\ timer'.state = timer.state
            /\ timer'.prePauseState = timer.prePauseState]_vars

\* C20: pause() on an Idle or paused engine, resume() on an Idle or running
\* engine, and start(Idle) and start(Paused) in any state change no field of
\* the engine and not the set of active intervals, and invoke no callback.
C20_InvalidCallsNoOp ==
    /\ timer.state \in {"Idle", "Paused"} => pause(World) = World
    /\ timer.state # "Paused" => resume(World, settings) = World
    /\ \A s \in EngineSettingsSpace :
          start(World, s, "Idle") = World /\ start(World, s, "Paused") = World

\* C20 witness: a paused engine part of the way through a countdown (pause(),
\* start(Idle) and start(Paused) are invalid on it), on which the last call
\* invoked no callback.
C20_Witness ==
    /\ timer.state = "Paused"
    /\ timer.prePauseState = "ShortBreak"
    /\ 0 < timer.remainingTime
    /\ timer.remainingTime < timer.totalTime
    /\ intervals = {}
    /\ emitted = <<>>

\* C21: updateSettings changes no field of the engine and no interval; while
\* an interval lasts (from a step that leaves the engine running or paused to
\* the next) totalTime keeps its value and remainingTime changes only by a
\* tick of one second, whatever the settings have become, also over pause and
\* resume; a start from Idle takes the minutes the settings hold at that time.
C21_UpdateSettingsFrame ==
    [][/\ EngUpdateSettings => timer' = timer /\ intervals' = intervals
       /\ (timer.state # "Idle" /\ timer'.state # "Idle") =>
             /\ timer'.totalTime = timer.totalTime
             /\ timer'.remainingTime \in {timer.remainingTime, timer.remainingTime - 1}
       /\ (timer.state = "Idle" /\ timer'.state # "Idle") =>
             /\ timer'.totalTime = sessionSeconds(settings, timer'.state)
             /\ timer'.remainingTime = timer'.totalTime]_vars

\* C21 witness: settings were replaced (the last step invoked no callback) on
\* an engine that runs, after a pause and a resume, an interval whose
\* totalTime is no longer what the settings give for its mode.
C21_Witness ==
    /\ isRunning(timer)
    /\ timer.prePauseState = timer.state
    /\ timer.remainingTime < timer.totalTime
    /\ sessionSeconds(settings, timer.state) > timer.totalTime
    /\ emitted = <<>>

\* the onTick callbacks of the last handler
C22_Ticks == {emitted[i] : i \in {j \in DOMAIN emitted : emitted[j].ev = "onTick"}}

\* C22: in every reachable state of the engine 0 <= remainingTime <=
\* totalTime, and remainingTime = totalTime = 0 exactly when it is Idle; every
\* onTick carries values with 0 <= remainingTime <= totalTime.
C22_TimeInvariant ==
    /\ 0 <= timer.remainingTime
    /\ timer.remainingTime <= timer.totalTime
    /\ (timer.remainingTime = 0 /\ timer.totalTime = 0) <=> timer.state = "Idle"
    /\ timer.state = "Idle" => timer.remainingTime = 0
    /\ \A e \in C22_Ticks : 0 <= e.args[1] /\ e.args[1] <= e.args[2]

\* C22 witness: the tick that took a two-minute countdown to zero: it called
\* onTick(0, 120) and left the engine Idle.
C22_Witness ==
    /\ timer.state = "Idle"
    /\ onTick(0, 120) \in C22_Ticks
    /\ NCompletions(emitted) = 1

\* C24: in every reachable state of the engine at most one interval is
\* active, it is the one intervalId names, and one is active exactly when the
\* engine is running (not Idle, not Paused).
C24_OneCountdown ==
    /\ Cardinality(intervals) <= 1
    /\ intervals # {} <=> isRunning(timer)
    /\ intervals = IF timer.intervalId = NULL THEN {} ELSE {timer.intervalId}

\* C24 witness: start() was called on a paused engine with another mode: the
\* engine runs the new mode on the old countdown, with one interval.
C24_Witness ==
    /\ isRunning(timer)
    /\ timer.prePauseState \in Modes
    /\ timer.prePauseState # timer.state
    /\ timer.remainingTime < timer.totalTime
    /\ Cardinality(intervals) = 1

\* C25: the tick that takes remainingTime to zero invokes onTimerComplete with
\* the mode that finished and the totalTime of its interval, and does so
\* before the engine is made Idle (before stop() reports onTick(0, 0)).
C25_CompletionCarriesSession ==
    [][TickToZero =>
          \E i \in DOMAIN emitted' :
             /\ emitted'[i].ev = "onTimerComplete"
             /\ emitted'[i].args = <<timer.state, timer.totalTime>>
             /\ \A j \in 1..(i - 1) : emitted'[j] # onTick(0, 0)]_vars

\* C23: every step changes completedPomodoros by one when it is the tick that
\* takes a Work countdown to zero and not at all otherwise (a break reaching
\* zero, reset, acknowledge, a click on the mode label, pause, resume, the
\* timeouts), so the count is the number of Work countdowns that reached zero.
C23_CountsWorkCompletions ==
    [][/\ plugin'.completedPomodoros =
             plugin.completedPomodoros + (IF CompletesMode("Work") THEN 1 ELSE 0)
       /\ plugin'.completedPomodoros = workDone']_vars

\* C28: the tick that takes a ShortBreak or LongBreak countdown of the engine
\* to zero leaves nextMode = Work, whatever came before it.
C28_BreakThenWork ==
    [][(CompletesMode("ShortBreak") \/ CompletesMode("LongBreak")) =>
          plugin'.nextMode = "Work"]_vars

\* C30: when the auto-start timeout fires with isSessionComplete set, it
\* leaves the engine running nextMode and isSessionComplete clear, so that
\* the next click on the time button pauses the engine.
C30_AutoStartAcknowledges ==
    [][(AutoStartFire /\ plugin.isSessionComplete) =>
          /\ isRunning(timer')
          /\ timer'.state = plugin.nextMode
          /\ ~plugin'.isSessionComplete]_vars

\* C26: settings with a non-positive duration or interval never replace the
\* valid ones, so the engine's settings are always positive, a countdown in
\* progress has totalTime > 0, and remainingTime is never negative, neither
\* in a state nor in an onTick.
C26_InvalidSettingsRejected ==
    /\ settings.workTime > 0
    /\ settings.shortBreakTime > 0
    /\ settings.longBreakTime > 0
    /\ settings.longBreakInterval > 0
    /\ timer.state # "Idle" => timer.totalTime > 0
    /\ timer.remainingTime >= 0
    /\ \A e \in C22_Ticks : e.args[1] >= 0

\* the run has reached the number of completions the model follows: no
\* further tick is taken, and time stands still while a countdown is active
C29_RunEnded ==
    \/ plugin.completedPomodoros >= MaxPomodoros
    \/ workDone >= MaxPomodoros

\* C29: whenever isSessionComplete is set it is clear again later, whatever
\* the user does or does not do, given that pending seconds pass and due
\* callbacks run (within the completions the model follows); and the expiry
\* callback that finds isSessionComplete still set and the engine not running
\* sets currentMode = nextMode.
C29_WindowCloses ==
    /\ plugin.isSessionComplete ~> (~plugin.isSessionComplete \/ C29_RunEnded)
    /\ [][(AckExpiryFire /\ plugin.isSessionComplete /\ ~isRunning(timer)) =>
             /\ plugin'.currentMode = plugin.nextMode
             /\ ~plugin'.isSessionComplete]_vars

\* C29 witness: the expiry timeout of the one completion has fired on an Idle
\* engine that was never paused or restarted: isSessionComplete is clear and
\* currentMode has become nextMode, a break.
C29_Witness ==
    /\ workDone = 1
    /\ ackTimers = {}
    /\ autoTimers = {}
    /\ ~plugin.isSessionComplete
    /\ plugin.completedPomodoros = 1
    /\ plugin.currentMode = plugin.nextMode
    /\ plugin.currentMode # "Work"
    /\ timer.state = "Idle"
    /\ timer.prePauseState = "Idle"
    /\ emitted = <<>>

\* the records a period of the day 'now' covers: the indices of the log whose
\* record is of type Work and dated within the period
C27_Window(period, now) ==
    IF period = "daily" THEN {now} ELSE (now - WeekDays + 1)..now

C27_Counted(period, now) ==
    {i \in DOMAIN sessions :
        sessions[i].type = "Work" /\ sessions[i].date \in C27_Window(period, now)}

RECURSIVE C27_Sum(_)
C27_Sum(S) ==
    IF S = {} THEN 0
    ELSE LET i == CHOOSE j \in S : TRUE IN sessions[i].duration + C27_Sum(S \ {i})

\* C27: for each period and each day of the call, getStats over the log
\* returns the number of the log's Work records dated in the period and the
\* sum of their durations (the log of Work 600, 900, 1500 today and 1500
\* yesterday gives {3, 3000} daily and {4, 4500} weekly); and a call from the
\* view changes neither the log nor the plugin nor the engine: on a view that
\* is not open it changes nothing at all, on an open one the cards show
\* exactly that count and the whole minutes of that sum.
C27_Statistics ==
    /\ [](\A period \in periods, now \in StatsNow :
             getStats(sessions, period, now) =
               [completedPomodoros |-> Cardinality(C27_Counted(period, now)),
                totalFocusTime |-> C27_Sum(C27_Counted(period, now))])
    /\ [](sessions = ExampleLog(WeekDays) =>
             /\ getStats(sessions, "daily", WeekDays) =
                  [completedPomodoros |-> 3, totalFocusTime |-> 3000]
             /\ getStats(sessions, "weekly", WeekDays) =
                  [completedPomodoros |-> 4, totalFocusTime |-> 4500])
    /\ [][(OnOpen \/ UpdateStats \/ StatsToggle) =>
             /\ UNCHANGED <<sessions, plugin, timer, intervals, due, settings, autoTimers,
                            ackTimers, loaded, workDone>>
             /\ IF view'.completedSessionsEl.created /\ view'.totalFocusTimeEl.created
                THEN /\ Len(view'.stats) = 1
                     /\ view'.stats[1].result =
                          [completedPomodoros |->
                             Cardinality(C27_Counted(view'.statsPeriod, view'.stats[1].now)),
                           totalFocusTime |->
                             C27_Sum(C27_Counted(view'.statsPeriod, view'.stats[1].now))]
                     /\ view'.completedSessionsEl.text =
                          <<view'.stats[1].result.completedPomodoros>>
                     /\ view'.totalFocusTimeEl.text =
                          <<view'.stats[1].result.totalFocusTime \div SecondsPerMinute>>
                ELSE view' = view /\ view.stats = <<>>]_vars

\* C27 witness: the view shows the week of the example log: four sessions,
\* 4500 s, 75 whole minutes.
C27_Witness ==
    /\ sessions = ExampleLog(WeekDays)
    /\ view.statsPeriod = "weekly"
    /\ view.stats = <<[now |-> WeekDays,
                       result |-> [completedPomodoros |-> 4, totalFocusTime |-> 4500]]>>
    /\ view.completedSessionsEl = setText(createEl, 4)
    /\ view.totalFocusTimeEl = setText(createEl, 75)

\* the engine's countdown of mode m reaches zero and the setting that would
\* auto-start what follows it is off
C31_CompletesWithoutAutoStart ==
    \/ CompletesMode("Work") /\ ~settings.autoStartBreaks
    \/ (CompletesMode("ShortBreak") \/ CompletesMode("LongBreak")) /\ ~settings.autoStartPomodoros

\* C31: when a Work countdown reaches zero with autoStartBreaks off, or a
\* break countdown reaches zero with autoStartPomodoros off, no auto-start is
\* left pending; the expiry callback never touches the engine; and the engine
\* leaves Idle only by a click on the time button made with isSessionComplete
\* clear, or by a pending auto-start.  So the engine stays Idle until the user
\* starts it after the acknowledgment.
C31_StaysIdleWithoutAutoStart ==
    [][/\ C31_CompletesWithoutAutoStart => autoTimers' = {}
       /\ AckExpiryFire => (timer' = timer /\ intervals' = intervals)
       /\ (timer.state = "Idle" /\ timer'.state # "Idle") =>
             \/ PauseResumeClick /\ ~plugin.isSessionComplete
             \/ AutoStartFire /\ 0 \in autoTimers]_vars

\* the mode the engine is counting down: its state when it runs, the state
\* pause() saved when it is paused
C32_EngineMode == IF timer.state = "Paused" THEN timer.prePauseState ELSE timer.state

\* C32: whenever the engine is running or paused, the mode it is counting
\* down is the plugin's currentMode.
C32_ModeMatches == timer.state # "Idle" => C32_EngineMode = plugin.currentMode

\* the state the tick that reaches zero leaves: the engine Idle at 0/0 with no
\* interval, the completion callback invoked
C33_Completed ==
    /\ timer.state = "Idle"
    /\ timer.remainingTime = 0
    /\ intervals = {}
    /\ \E i \in DOMAIN emitted : emitted[i] = onTimerCompleteEv

\* C33: an engine that runs and is not paused, stopped or reset reaches the
\* state where it is Idle at zero with its completion callback invoked, given
\* that the callback of an active
\* interval keeps running; and every run of the callback takes exactly one
\* second off remainingTime.
C33_CountdownEnds ==
    /\ isRunning(timer) ~> C33_Completed
    /\ [][EngTick => timer'.remainingTime = timer.remainingTime - 1]_vars

\* C33 witness: the first countdown, of the longest duration, has reached
\* zero: its last tick reported 0 of MaxEngineMinutes minutes.
C33_Witness ==
    /\ C33_Completed
    /\ emitted[1] = onTick(0, MaxEngineMinutes * SecondsPerMinute)

\* C34: whenever the engine is Paused, prePauseState is Work, ShortBreak or
\* LongBreak, and resume() leaves the engine running that mode with a new
\* active interval and the remaining time it was paused at, which is positive.
C34_ResumeLeavesPaused ==
    timer.state = "Paused" =>
        /\ timer.prePauseState \in Modes
        /\ LET w == resume(World, settings)
           IN  /\ w.t.state = timer.prePauseState
               /\ isRunning(w.t)
               /\ w.t.intervalId # NULL
               /\ w.iv = {w.t.intervalId}
               /\ w.t.remainingTime = timer.remainingTime
               /\ w.t.remainingTime > 0

\* C34 witness: pause() has just paused a LongBreak countdown part of the way
\* through.
C34_Witness ==
    /\ timer.state = "Paused"
    /\ timer.prePauseState = "LongBreak"
    /\ timer.remainingTime < timer.totalTime
    /\ emitted = <<onTick(timer.remainingTime, timer.totalTime)>>

\* C35: the tick that takes a countdown to zero invokes, in this order, the
\* tick callback with remainingTime 0, the tick callback of stop() with 0 of 0,
\* the completion callback and the state-change callback, and leaves the
\* engine Idle at 0/0 with no interval; and isSessionComplete becomes set only
\* in such a step, so it is set on an Idle engine with no active countdown.
C35_CompletionOrder ==
    [][/\ ReachesZero =>
             /\ emitted' = <<onTick(0, timer.totalTime), onTick(0, 0), onTimerCompleteEv,
                             onStateChange(timer.state)>>
             /\ timer'.state = "Idle"
             /\ timer'.remainingTime = 0
             /\ timer'.totalTime = 0
             /\ timer'.intervalId = NULL
             /\ intervals' = {}
             /\ plugin'.isSessionComplete
       /\ (~plugin.isSessionComplete /\ plugin'.isSessionComplete) =>
             /\ ReachesZero
             /\ ~isRunning(timer')
             /\ intervals' = {}]_vars

\* C35 witness: a ShortBreak countdown has just reached zero: the four
\* callbacks were invoked in order, isSessionComplete is set and the engine is
\* Idle with no interval.
C35_Witness ==
    /\ emitted = <<onTick(0, SecondsPerMinute), onTick(0, 0), onTimerCompleteEv,
                   onStateChange("ShortBreak")>>
    /\ plugin.isSessionComplete
    /\ timer.state = "Idle"
    /\ timer.remainingTime = 0
    /\ intervals = {}
    /\ ackTimers = {AckTimeout}

====
